---- MODULE Spec2Model ----
(***************************************************************************)
(* Model of download_script.py: the URL extractor, the filename sanitizer, *)
(* the fetch executor download_pdf and the batch orchestrator main.        *)
(*                                                                         *)
(* Text is modelled character by character: a string is a sequence of      *)
(* Unicode code points (104 is "h", 58 is ":", 65292 is the fullwidth      *)
(* comma), so the regular expressions of the source are computed on the    *)
(* characters they see.                                                    *)
(***************************************************************************)
EXTENDS Integers, Sequences, FiniteSets, TLC

----------------------------------------------------------------------------
(* Bounds of the model *)

\* rows of the input table
MaxRows == 2
\* tokens of a generated remark text (extract_urls inputs)
MaxTokens == 3
\* largest max_retries a download_pdf call is given on its own
MaxRetries == 3
\* length of a scripted server behaviour (responses before it repeats)
MaxScript == 3

----------------------------------------------------------------------------
(* Strings *)

RECURSIVE Concat(_)
\* "".join(parts)
Concat(parts) ==
    IF parts = <<>> THEN <<>> ELSE Head(parts) \o Concat(Tail(parts))

RECURSIVE IntToStr(_)
\* str(n) of a non-negative integer: its decimal digits ("0" is 48)
IntToStr(n) ==
    IF n < 10 THEN <<48 + n>> ELSE IntToStr(n \div 10) \o <<48 + (n % 10)>>

\* s * n for a one-character string
Repeat(c, n) == [i \in 1..n |-> c]

\* pandas cells: NaN (empty cell), an integer or a string
NaN == [t |-> "nan", n |-> 0, s |-> <<>>]
IntCell(k) == [t |-> "int", n |-> k, s |-> <<>>]
StrCell(str) == [t |-> "str", n |-> 0, s |-> str]

\* pd.isna(cell)
isna(cell) == cell.t = "nan"

\* str(cell): "nan" for NaN, the digits of an integer, the string itself
str(cell) ==
    CASE cell.t = "nan" -> <<110, 97, 110>>
      [] cell.t = "int" -> IntToStr(cell.n)
      [] OTHER -> cell.s

----------------------------------------------------------------------------
(* extract_urls: re.findall(url_pattern, str(text)) *)

\* \s of a Python str pattern: the characters with str.isspace()
IsSpace(c) ==
    \/ c \in 9..13
    \/ c \in 28..32
    \/ c \in {133, 160, 5760, 8232, 8233, 8239, 8287, 12288}
    \/ c \in 8192..8202

\* the punctuation listed in the character class:
\* fullwidth comma, ideographic full stop, fullwidth ! ; ), the closing
\* brackets U+3011 U+300D U+300B, and ASCII ) ] }
url_terminators ==
    {65292, 12290, 65281, 65307, 65289, 12305, 12301, 12299, 41, 93, 125}

ExcludedMutRange(c) ==
    IsSpace(c) \/ c \in url_terminators

\* a character the class [^...] of url_pattern rejects: whitespace, a CJK
\* ideograph U+4E00..U+9FA5 or a listed terminator
Excluded(c) ==
    \/ IsSpace(c)
    \/ c \in 19968..40869
    \/ c \in url_terminators

\* t[i..] starts with p
StartsAt(t, i, p) ==
    /\ i + Len(p) - 1 <= Len(t)
    /\ \A k \in 1..Len(p) : t[i + k - 1] = p[k]

\* length of the match of https?:// at position i, 0 when there is none
SchemeAt(t, i) ==
    IF StartsAt(t, i, <<104, 116, 116, 112, 115, 58, 47, 47>>) THEN 8
    ELSE IF StartsAt(t, i, <<104, 116, 116, 112, 58, 47, 47>>) THEN 7
    ELSE 0

RECURSIVE RunEnd(_, _)
\* last position of the greedy run of allowed characters starting at i
\* (i - 1 when t[i] is excluded or past the end)
RunEnd(t, i) ==
    IF i > Len(t) \/ Excluded(t[i]) THEN i - 1 ELSE RunEnd(t, i + 1)

\* end of the regex match starting at i, 0 when the pattern does not match
MatchEnd(t, i) ==
    LET n == SchemeAt(t, i) IN
    IF n = 0 THEN 0
    ELSE LET e == RunEnd(t, i + n) IN
         IF e >= i + n THEN e ELSE 0

\* re.findall: the leftmost non-overlapping matches, scanning from position
\* from; after a match the scan resumes behind it, otherwise one character on
findall(t, from) ==
    LET scan[i \in 1..(Len(t) + 1)] ==
            IF i > Len(t) THEN <<>>
            ELSE LET e == MatchEnd(t, i) IN
                 IF e = 0 THEN scan[i + 1]
                 ELSE <<SubSeq(t, i, e)>> \o scan[e + 1]
    IN scan[from]

extract_urls(text) ==
    IF isna(text) THEN <<>> ELSE findall(str(text), 1)

----------------------------------------------------------------------------
(* sanitize_filename *)

\* [<>:"/\\|?*]
invalid_chars == {60, 62, 58, 34, 47, 92, 124, 63, 42}

\* the length limit of a file name
MaxNameLen == 200

resubMutKeepStar(filename) ==
    [i \in 1..Len(filename) |->
        IF filename[i] \in invalid_chars \ {42} THEN 95 ELSE filename[i]]

\* re.sub(invalid_chars, '_', filename)
resub(filename) ==
    [i \in 1..Len(filename) |->
        IF filename[i] \in invalid_chars THEN 95 ELSE filename[i]]

sanitize_filename(filename) ==
    LET f == resub(filename) IN
    IF Len(f) > MaxNameLen THEN SubSeq(f, 1, MaxNameLen) ELSE f

----------------------------------------------------------------------------
(* The network: responses of requests.get and of the streamed body *)

\* what one request does: requests.get raises `raised`, or answers `status`
\* and streams `chunks` (sizes in bytes), the stream failing with `broken`
\* after the chunks when broken is not "none"
Response(raised, status, chunks, broken) ==
    [raised |-> raised, status |-> status, chunks |-> chunks, broken |-> broken]

R500 == Response("none", 500, <<>>, "none")
RReadTimeout == Response("ReadTimeout", 0, <<>>, "none")
RConnectTimeout == Response("ConnectTimeout", 0, <<>>, "none")
RConnError == Response("ConnectionError", 0, <<>>, "none")
REmpty == Response("none", 200, <<>>, "none")
ROk == Response("none", 200, <<2, 0, 1>>, "none")
RBrokenPartial == Response("none", 200, <<2>>, "ChunkedEncodingError")
RBrokenAtStart == Response("none", 200, <<>>, "ConnectionError")

Responses ==
    {R500, RReadTimeout, RConnectTimeout, RConnError, REmpty, ROk,
     RBrokenPartial, RBrokenAtStart}

\* the exception classes of requests.exceptions, by subclass relation
IsHTTPError(e) == e = "HTTPError"
IsTimeout(e) == e \in {"ReadTimeout", "ConnectTimeout"}
IsConnectionError(e) == e \in {"ConnectionError", "ConnectTimeout"}

\* error messages: a text and, for an HTTP error, the status code in it
Msg(text, code) == [text |-> text, code |-> code]
None == Msg("None", 0)

\* scripted servers: the k-th request of a URL is answered by script[k], and
\* by the last entry of the script from then on
RECURSIVE SeqsOf(_, _)
SeqsOf(S, n) ==
    IF n = 0 THEN {<<>>}
    ELSE LET shorter == SeqsOf(S, n - 1) IN
         shorter \cup {Append(q, x) : q \in {r \in shorter : Len(r) = n - 1}, x \in S}

Scripts == SeqsOf(Responses, MaxScript) \ {<<>>}

----------------------------------------------------------------------------
(* State *)

VARIABLES
    \* the environment
    fs,            \* files of output_dir: file name -> size in bytes
    dir_exists,    \* os.path.exists(output_dir)
    server,        \* url -> script of responses
    served,        \* url -> number of requests received so far
    artifacts,     \* failure ledger files written to the working directory
    \* download_pdf: parameters and locals
    url, filename, max_retries, attempt, selected_ua, error_msg, wait_time, ret,
    \* main: locals
    df, idx, xuhao, biaoti, beizhu, urls, url_idx,
    success_count, fail_count, failed_items,
    \* control: the statement about to run
    pc,
    \* history, for stating properties
    trace,         \* requests and sleeps of the current download_pdf call
    fs0,           \* fs when the current download_pdf call started
    calls,         \* download_pdf calls of the current run, with their outcome
    run,           \* 1 for the first run over the table, 2 for the re-run
    prev_calls,    \* calls of the first run
    prev_fs,       \* fs at the end of the first run
    parts,         \* the tokens a generated remark or file name was built from
    \* the browser-rendering run (zhuanchu_scipt.py)
    wangzhi,       \* the cell of the URL column of the current row
    driver,        \* the browser: "none", "open" after setup_driver, "closed"
    quits,         \* number of driver.quit() calls executed
    raised         \* the exception propagating out of the row loop, or "none"

envVars == <<fs, dir_exists, server, served, artifacts>>
dlVars == <<url, filename, max_retries, attempt, selected_ua, error_msg, wait_time, ret>>
mainVars == <<df, idx, xuhao, biaoti, beizhu, urls, url_idx,
              success_count, fail_count, failed_items>>
histVars == <<trace, fs0, calls, run, prev_calls, prev_fs, parts>>
renderVars == <<wangzhi, driver, quits, raised>>
vars == <<envVars, dlVars, mainVars, pc, histVars, renderVars>>

----------------------------------------------------------------------------
(* download_pdf *)

user_agents ==
    <<"Firefox/121.0 Windows", "Firefox/122.0 Windows", "Firefox/121.0 Macintosh",
      "Edg/120.0.0.0 Windows", "Safari/605.1.15 Macintosh",
      "Chrome/120.0.0.0 Windows", "Chrome/120.0.0.0 Macintosh">>

NoUA == "unset"

\* the default of the max_retries parameter
DefaultMaxRetries == 3

\* os.path.exists(filepath) and os.path.getsize(filepath)
exists(files, name) == name \in DOMAIN files
getsize(files, name) == files[name]

\* files with `name` written (created or replaced) at `size` bytes
WriteFile(files, name, size) ==
    [f \in DOMAIN files \cup {name} |-> IF f = name THEN size ELSE files[f]]

\* os.remove(filepath)
RemoveFile(files, name) ==
    [f \in DOMAIN files \ {name} |-> files[f]]

PreCheckMutNever(files, name) == FALSE

PreCheckMutEmptyOnly(files, name) ==
    name \in DOMAIN files /\ files[name] = 0

\* lines 50-54: the file is already there and not empty
PreCheck(files, name) ==
    exists(files, name) /\ getsize(files, name) > 0

RECURSIVE Written(_)
\* bytes written by the loop over iter_content: empty chunks are skipped
Written(chunks) ==
    IF chunks = <<>> THEN 0
    ELSE (IF Head(chunks) > 0 THEN Head(chunks) ELSE 0) + Written(Tail(chunks))

VerifiedMutAcceptEmpty(size) == size >= 0

\* line 98: the downloaded file counts as a success
Verified(size) == size > 0

AfterEmptyMutKeep(files, name) == files

\* line 103: the empty file is removed
AfterEmpty(files, name) == RemoveFile(files, name)

\* lines 88-104, the try block of one attempt on response r: the exception it
\* ends with ("none": it returned success), and the files it leaves
TryBlock(files, name, r) ==
    IF r.raised # "none" THEN [exc |-> r.raised, files |-> files]
    ELSE IF r.status >= 400 THEN [exc |-> "HTTPError", files |-> files]
    ELSE LET size == Written(r.chunks)
             opened == WriteFile(files, name, size) IN
         IF r.broken # "none" THEN [exc |-> r.broken, files |-> opened]
         ELSE IF Verified(size) THEN [exc |-> "none", files |-> opened]
         ELSE [exc |-> "EmptyFile", files |-> AfterEmpty(opened, name)]

\* the except clauses in their order: the message each one sets, and the
\* line of its return statement
Handler(exc, status) ==
    IF IsHTTPError(exc) THEN [msg |-> Msg("HTTP cuowu", status), line |-> 115]
    ELSE IF IsTimeout(exc) THEN [msg |-> Msg("qingqiu chaoshi", 0), line |-> 126]
    ELSE IF IsConnectionError(exc) THEN [msg |-> Msg("lianjie cuowu", 0), line |-> 137]
    ELSE IF exc = "EmptyFile" THEN [msg |-> Msg("xiazai de wenjian wei kong", 0), line |-> 148]
    ELSE [msg |-> Msg(exc, 0), line |-> 148]

BackoffMutLinear(n) == 2 * n

\* lines 109, 120, 131, 142: wait_time = 2 ** attempt
Backoff(n) == 2 ^ n

WillRetryMutOnce(n, retries) == n < 1

WillRetryMutAlways(n, retries) == TRUE

\* lines 108, 119, 130, 141: another attempt follows
WillRetry(n, retries) == n < retries - 1

\* the response the server gives to the next request of u
NextResponse(u) ==
    LET script == server[u]
        k == served[u] + 1 IN
    script[IF k <= Len(script) THEN k ELSE Len(script)]

Return(ok, msg, line) == [ok |-> ok, msg |-> msg, line |-> line]
NoReturn == Return(FALSE, None, 0)

GetEvent(n, exc, status) == [ev |-> "get", n |-> n, exc |-> exc, status |-> status]
SleepEvent(secs) == [ev |-> "sleep", n |-> secs, exc |-> "none", status |-> 0]

IdentitiesMutAnyFirst(n) == {user_agents[i] : i \in DOMAIN user_agents}

\* lines 75-78: the first attempt uses the first User-Agent, a retry a random
\* one of the list
Identities(n) ==
    IF n = 0 THEN {user_agents[1]}
    ELSE {user_agents[i] : i \in DOMAIN user_agents}

\* lines 43-54 and the entry of the loop at 72
DlEnter ==
    /\ pc = "call"
    /\ dir_exists' = TRUE
    /\ fs0' = fs
    /\ trace' = <<>>
    /\ IF PreCheck(fs, filename)
       THEN /\ ret' = Return(TRUE, None, 54)
            /\ pc' = "return"
            /\ UNCHANGED attempt
       ELSE IF max_retries <= 0
       THEN /\ ret' = Return(FALSE, Msg("suoyou chongshi dou shibai", 0), 151)
            /\ pc' = "return"
            /\ UNCHANGED attempt
       ELSE /\ attempt' = 0
            /\ pc' = "attempt"
            /\ UNCHANGED ret
    /\ UNCHANGED <<fs, server, served, artifacts, url, filename, max_retries,
                   selected_ua, error_msg, wait_time, mainVars,
                   calls, run, prev_calls, prev_fs, parts>>
    /\ UNCHANGED renderVars

\* lines 73-148 up to the sleep: one attempt, its except clause included
DlAttempt ==
    /\ pc = "attempt"
    /\ \E ua \in Identities(attempt) : selected_ua' = ua
    /\ LET r == NextResponse(url)
           t == TryBlock(fs, filename, r)
           h == Handler(t.exc, r.status) IN
       /\ served' = [served EXCEPT ![url] = @ + 1]
       /\ fs' = t.files
       /\ trace' = Append(trace, GetEvent(attempt, t.exc, r.status))
       /\ IF t.exc = "none"
          THEN /\ ret' = Return(TRUE, None, 100)
               /\ pc' = "return"
               /\ UNCHANGED <<error_msg, wait_time>>
          ELSE /\ error_msg' = h.msg
               /\ IF WillRetry(attempt, max_retries)
                  THEN /\ wait_time' = Backoff(attempt)
                       /\ pc' = "backoff"
                       /\ UNCHANGED ret
                  ELSE /\ ret' = Return(FALSE, h.msg, h.line)
                       /\ pc' = "return"
                       /\ UNCHANGED wait_time
    /\ UNCHANGED <<dir_exists, server, artifacts, url, filename, max_retries,
                   attempt, mainVars, fs0, calls, run, prev_calls, prev_fs, parts>>
    /\ UNCHANGED renderVars

\* lines 111, 122, 133, 144: time.sleep(wait_time), then the next iteration
DlBackoff ==
    /\ pc = "backoff"
    /\ trace' = Append(trace, SleepEvent(wait_time))
    /\ attempt' = attempt + 1
    /\ pc' = "attempt"
    /\ UNCHANGED <<envVars, url, filename, max_retries, selected_ua, error_msg,
                   wait_time, ret, mainVars, fs0, calls, run, prev_calls,
                   prev_fs, parts>>
    /\ UNCHANGED renderVars

----------------------------------------------------------------------------
(* A download_pdf call on its own *)

\* "http://a" and the name "1-t.pdf"
UrlA == <<104, 116, 116, 112, 58, 47, 47, 97>>
UrlB == <<104, 116, 116, 112, 115, 58, 47, 47, 98>>
NameT == <<49, 45, 116, 46, 112, 100, 102>>

NoTable == [readable |-> FALSE, ncols |-> 0, rows |-> <<>>]
EmptyFs == [f \in {} |-> 0]

\* the values main's variables hold before main runs
MainIdle ==
    /\ df = NoTable
    /\ idx = 0 /\ xuhao = <<>> /\ biaoti = <<>> /\ beizhu = NaN
    /\ urls = <<>> /\ url_idx = 0
    /\ success_count = 0 /\ fail_count = 0 /\ failed_items = <<>>

HistIdle ==
    /\ trace = <<>> /\ fs0 = EmptyFs /\ calls = <<>> /\ run = 1
    /\ prev_calls = <<>> /\ prev_fs = EmptyFs /\ parts = <<>>

DlIdle ==
    /\ attempt = 0 /\ selected_ua = NoUA /\ error_msg = None
    /\ wait_time = 0 /\ ret = NoReturn

\* the values the variables of the browser-rendering run hold outside it
RenderIdle ==
    wangzhi = NaN /\ driver = "none" /\ quits = 0 /\ raised = "none"

InitFetch ==
    /\ pc = "call"
    /\ url = UrlA
    /\ filename = NameT
    /\ max_retries \in 0..MaxRetries
    /\ \E size \in 0..2 :
          fs = IF size = 0 THEN EmptyFs ELSE [f \in {NameT} |-> size - 1]
    /\ dir_exists \in BOOLEAN
    /\ server \in [{UrlA} -> Scripts]
    /\ served = [u \in {UrlA} |-> 0]
    /\ artifacts = <<>>
    /\ DlIdle /\ MainIdle /\ HistIdle
    /\ RenderIdle

NextFetch == DlEnter \/ DlAttempt \/ DlBackoff

SpecFetch == InitFetch /\ [][NextFetch]_vars

----------------------------------------------------------------------------
(* main: the batch run *)

\* f"{xuhao}-{biaoti}-{url_idx}.pdf" or f"{xuhao}-{biaoti}.pdf" (lines 200-204)
BuildName(index, title, position, n_urls) ==
    IF n_urls > 1
    THEN index \o <<45>> \o title \o <<45>> \o IntToStr(position) \o <<46, 112, 100, 102>>
    ELSE index \o <<45>> \o title \o <<46, 112, 100, 102>>

FailureRecordMutRawName(row_no, index, title, link, name, msg) ==
    [hanghao |-> row_no, xuhao |-> index, biaoti |-> title, lianjie |-> link,
     wenjianming |-> index \o <<45>> \o title, cuowu |-> msg]

\* lines 221-228: the record of a failed download
FailureRecord(row_no, index, title, link, name, msg) ==
    [hanghao |-> row_no, xuhao |-> index, biaoti |-> title, lianjie |-> link,
     wenjianming |-> name, cuowu |-> msg]

CountMutBoth(success, sc, fc) ==
    IF success THEN [s |-> sc + 1, f |-> fc] ELSE [s |-> sc + 1, f |-> fc + 1]

\* lines 213-219: the counters after one download
Count(success, sc, fc) ==
    IF success THEN [s |-> sc + 1, f |-> fc] ELSE [s |-> sc, f |-> fc + 1]

AdvanceMutFirstOnly(i, k, n) ==
    [pc |-> "row", idx |-> i + 1, url_idx |-> k]

\* the loops of lines 182 and 198: after URL k of n of row i comes the next URL
\* of the row, or the next row
Advance(i, k, n) ==
    IF k < n THEN [pc |-> "url", idx |-> i, url_idx |-> k + 1]
    ELSE [pc |-> "row", idx |-> i + 1, url_idx |-> k]

HasFailuresMutAlways(items) == TRUE

\* line 234: if failed_items
HasFailures(items) == items # <<>>

\* one written line of the text ledger
Line(label, text) == [label |-> label, text |-> text]

\* lines 247-254: the block of one failure
TxtBlock(item) ==
    <<Line("hanghao", IntToStr(item.hanghao)),
      Line("xuhao", item.xuhao),
      Line("biaoti", item.biaoti),
      Line("lianjie", item.lianjie),
      Line("wenjianming", item.wenjianming),
      Line("cuowu", item.cuowu),
      Line("-", <<>>),
      Line("", <<>>)>>

RECURSIVE TxtBlocks(_)
TxtBlocks(items) ==
    IF items = <<>> THEN <<>> ELSE TxtBlock(Head(items)) \o TxtBlocks(Tail(items))

\* lines 245-254: the text ledger, line by line
TxtLedger(items, stamp) ==
    <<Line("header", IntToStr(stamp)), Line("=", <<>>), Line("", <<>>)>>
        \o TxtBlocks(items)

\* lines 235-254: the two files, named by the timestamp
LedgerFiles(items, stamp) ==
    <<[name |-> "failed_downloads", stamp |-> stamp, ext |-> "json", content |-> items],
      [name |-> "failed_downloads", stamp |-> stamp, ext |-> "txt",
       content |-> TxtLedger(items, stamp)]>>

LoadedMutTwoColumns(table) == table.readable /\ table.ncols >= 2

\* lines 162-174: read_excel returns the table, and columns[0], columns[2]
\* and columns[-1] exist
Loaded(table) == table.readable /\ table.ncols >= 3

\* lines 160-179: read the table, pick the columns, zero the counters; an
\* unreadable table or a table with fewer than 3 columns raises, and the
\* except clause of line 269 ends the run
MainStart ==
    /\ pc = "start"
    /\ IF Loaded(df)
       THEN /\ pc' = "row"
            /\ idx' = 0
            /\ success_count' = 0 /\ fail_count' = 0 /\ failed_items' = <<>>
       ELSE /\ pc' = "error"
            /\ UNCHANGED <<idx, success_count, fail_count, failed_items>>
    /\ UNCHANGED <<envVars, dlVars, df, xuhao, biaoti, beizhu, urls, url_idx, histVars>>
    /\ UNCHANGED renderVars

NoLinksMutNever(found) == FALSE

\* line 190: if not urls
NoLinks(found) == found = <<>>

\* lines 182-195: the next row, its three cells and its links
MainRow ==
    /\ pc = "row"
    /\ IF idx >= Len(df.rows)
       THEN /\ pc' = "ledger"
            /\ UNCHANGED <<idx, xuhao, biaoti, beizhu, urls, url_idx>>
       ELSE /\ xuhao' = str(df.rows[idx + 1][1])
            /\ biaoti' = str(df.rows[idx + 1][3])
            /\ beizhu' = df.rows[idx + 1][df.ncols]
            /\ urls' = extract_urls(beizhu')
            /\ IF NoLinks(urls')
               THEN idx' = idx + 1 /\ pc' = "row" /\ UNCHANGED url_idx
               ELSE url_idx' = 1 /\ pc' = "url" /\ UNCHANGED idx
    /\ UNCHANGED <<envVars, dlVars, df, success_count, fail_count, failed_items, histVars>>
    /\ UNCHANGED renderVars

\* lines 198-212: the file name of the link, and the call of download_pdf
MainUrl ==
    /\ pc = "url"
    /\ url' = urls[url_idx]
    /\ filename' = sanitize_filename(BuildName(xuhao, biaoti, url_idx, Len(urls)))
    /\ max_retries' = DefaultMaxRetries
    /\ attempt' = 0 /\ selected_ua' = NoUA /\ error_msg' = None
    /\ wait_time' = 0 /\ ret' = NoReturn
    /\ pc' = "call"
    /\ UNCHANGED <<envVars, mainVars, histVars>>
    /\ UNCHANGED renderVars

\* lines 212-231: the result of the call is counted, a failure is recorded,
\* and after the delay the loops go on
MainAfter ==
    /\ pc = "return"
    /\ LET c == Count(ret.ok, success_count, fail_count)
           a == Advance(idx, url_idx, Len(urls)) IN
       /\ success_count' = c.s
       /\ fail_count' = c.f
       /\ failed_items' =
             IF ret.ok THEN failed_items
             ELSE Append(failed_items,
                         FailureRecord(idx + 1, xuhao, biaoti, url, filename, ret.msg))
       /\ pc' = a.pc /\ idx' = a.idx /\ url_idx' = a.url_idx
    /\ calls' = Append(calls,
                       [row |-> idx + 1, pos |-> url_idx, xuhao |-> xuhao,
                        biaoti |-> biaoti, url |-> url, filename |-> filename,
                        ok |-> ret.ok, msg |-> ret.msg, line |-> ret.line,
                        requests |-> Cardinality({i \in DOMAIN trace : trace[i].ev = "get"})])
    /\ attempt' = 0 /\ selected_ua' = NoUA /\ error_msg' = None
    /\ wait_time' = 0 /\ ret' = NoReturn
    /\ trace' = <<>> /\ fs0' = EmptyFs
    /\ UNCHANGED <<envVars, url, filename, max_retries, df, xuhao, biaoti, beizhu,
                   urls, run, prev_calls, prev_fs, parts>>
    /\ UNCHANGED renderVars

\* lines 233-267: the failure ledger, when there are failures, and the summary
MainLedger ==
    /\ pc = "ledger"
    /\ artifacts' =
          IF HasFailures(failed_items)
          THEN artifacts \o LedgerFiles(failed_items, run)
          ELSE artifacts
    /\ pc' = "done"
    /\ UNCHANGED <<fs, dir_exists, server, served, dlVars, mainVars, histVars>>
    /\ UNCHANGED renderVars

\* the operator runs main once more over the same table and output directory
SecondRun ==
    /\ pc = "done" /\ run = 1
    /\ run' = 2
    /\ prev_calls' = calls
    /\ prev_fs' = fs
    /\ calls' = <<>>
    /\ pc' = "start"
    /\ idx' = 0 /\ xuhao' = <<>> /\ biaoti' = <<>> /\ beizhu' = NaN
    /\ urls' = <<>> /\ url_idx' = 0
    /\ success_count' = 0 /\ fail_count' = 0 /\ failed_items' = <<>>
    /\ UNCHANGED <<envVars, dlVars, df, trace, fs0, parts>>
    /\ UNCHANGED renderVars

(* The tables of the model *)

\* a row of a 4-column table: index, an unused column, title, remark
Row(index, title, remark) == <<IntCell(index), NaN, title, remark>>

\* "jian http://a" with the ideograph U+89C1 and a space before the link
RowColon == Row(1, StrCell(<<97, 58>>), StrCell(<<35265, 32>> \o UrlA))
RowSlash == Row(1, StrCell(<<97, 47>>), StrCell(UrlB))
\* two links separated by " he " with the ideograph U+548C
RowTwo == Row(2, StrCell(<<116>>), StrCell(UrlA \o <<32, 21644, 32>> \o UrlB))
\* a title of 200 characters and the same link twice, separated by a fullwidth comma
RowLong == Row(3, StrCell(Repeat(120, MaxNameLen)), StrCell(UrlA \o <<65292>> \o UrlA))
\* a remark without a link (the ideograph U+65E0), and an empty remark
RowNoUrl == Row(4, StrCell(<<116>>), StrCell(<<26080>>))
RowNaN == Row(5, NaN, NaN)

RowPool == {RowColon, RowSlash, RowTwo, RowLong, RowNoUrl, RowNaN}

Table(ncols, rows) == [readable |-> TRUE, ncols |-> ncols, rows |-> rows]

\* a 2-column table, and a 3-column table whose third column is title and remark
TwoColumns == Table(2, <<<<IntCell(1), StrCell(UrlA)>>>>)
ThreeColumns == Table(3, <<<<IntCell(7), NaN, StrCell(<<116, 32>> \o UrlA)>>>>)

Tables ==
    {Table(4, rows) : rows \in SeqsOf(RowPool, MaxRows)}
        \cup {NoTable, TwoColumns, ThreeColumns}

\* server behaviours of the batch: always up, always HTTP 500, down for the
\* three attempts of a call and up afterwards, always breaking part-way
BatchScripts ==
    {<<ROk>>, <<R500>>, <<R500, R500, R500, ROk>>, <<RBrokenPartial>>}

Init ==
    /\ pc = "start"
    /\ df \in Tables
    /\ server \in [{UrlA, UrlB} -> BatchScripts]
    /\ served = [u \in {UrlA, UrlB} |-> 0]
    /\ fs = EmptyFs
    /\ dir_exists = FALSE
    /\ artifacts = <<>>
    /\ url = <<>> /\ filename = <<>> /\ max_retries = DefaultMaxRetries
    /\ DlIdle
    /\ idx = 0 /\ xuhao = <<>> /\ biaoti = <<>> /\ beizhu = NaN
    /\ urls = <<>> /\ url_idx = 0
    /\ success_count = 0 /\ fail_count = 0 /\ failed_items = <<>>
    /\ HistIdle
    /\ RenderIdle

NextMain ==
    \/ MainStart \/ MainRow \/ MainUrl \/ MainAfter \/ MainLedger
    \/ DlEnter \/ DlAttempt \/ DlBackoff

Next == NextMain \/ SecondRun

Spec == Init /\ [][Next]_vars

----------------------------------------------------------------------------
(* extract_urls on its own *)

\* pieces of remark text: the two links, a space, a line feed, a fullwidth
\* comma, the ideograph U+548C, ")", the ideographic comma U+3001, the
\* fullwidth question mark U+FF1F, and the letter x
Tokens ==
    {UrlA, UrlB, <<32>>, <<10>>, <<65292>>, <<21644>>, <<41>>, <<12289>>,
     <<65311>>, <<120>>}

InitExtract ==
    /\ pc = "extract"
    /\ \E text \in SeqsOf(Tokens, MaxTokens), null \in BOOLEAN :
          /\ parts = IF null THEN <<>> ELSE text
          /\ beizhu = IF null THEN NaN ELSE StrCell(Concat(text))
    /\ urls = <<>>
    /\ fs = EmptyFs /\ dir_exists = FALSE /\ artifacts = <<>>
    /\ server = [u \in {} |-> <<>>] /\ served = [u \in {} |-> 0]
    /\ url = <<>> /\ filename = <<>> /\ max_retries = DefaultMaxRetries
    /\ DlIdle
    /\ df = NoTable /\ idx = 0 /\ xuhao = <<>> /\ biaoti = <<>> /\ url_idx = 0
    /\ success_count = 0 /\ fail_count = 0 /\ failed_items = <<>>
    /\ trace = <<>> /\ fs0 = EmptyFs /\ calls = <<>> /\ run = 1
    /\ prev_calls = <<>> /\ prev_fs = EmptyFs
    /\ RenderIdle

\* urls = extract_urls(beizhu), line 188
Extract ==
    /\ pc = "extract"
    /\ urls' = extract_urls(beizhu)
    /\ pc' = "extracted"
    /\ UNCHANGED <<envVars, dlVars, df, idx, xuhao, biaoti, beizhu, url_idx,
                   success_count, fail_count, failed_items, histVars>>
    /\ UNCHANGED renderVars

NextExtract == Extract

SpecExtract == InitExtract /\ [][NextExtract]_vars

----------------------------------------------------------------------------
(* sanitize_filename on its own *)

\* pieces of file names: each forbidden character, the letter a, "_", ".pdf",
\* the ideograph U+548C, and a run of x one short of the length limit
NameTokens ==
    {<<c>> : c \in invalid_chars}
        \cup {<<97>>, <<95>>, <<46, 112, 100, 102>>, <<21644>>,
              Repeat(120, MaxNameLen - 1)}

InitSanitize ==
    /\ pc = "sanitize"
    /\ parts \in SeqsOf(NameTokens, MaxTokens)
    /\ filename = Concat(parts)
    /\ beizhu = NaN /\ urls = <<>>
    /\ fs = EmptyFs /\ dir_exists = FALSE /\ artifacts = <<>>
    /\ server = [u \in {} |-> <<>>] /\ served = [u \in {} |-> 0]
    /\ url = <<>> /\ max_retries = DefaultMaxRetries
    /\ DlIdle
    /\ df = NoTable /\ idx = 0 /\ xuhao = <<>> /\ biaoti = <<>> /\ url_idx = 0
    /\ success_count = 0 /\ fail_count = 0 /\ failed_items = <<>>
    /\ trace = <<>> /\ fs0 = EmptyFs /\ calls = <<>> /\ run = 1
    /\ prev_calls = <<>> /\ prev_fs = EmptyFs
    /\ RenderIdle

\* filename = sanitize_filename(filename), line 205
Sanitize ==
    /\ pc = "sanitize"
    /\ filename' = sanitize_filename(filename)
    /\ pc' = "sanitized"
    /\ UNCHANGED <<envVars, url, max_retries, attempt, selected_ua, error_msg,
                   wait_time, ret, mainVars, histVars>>
    /\ UNCHANGED renderVars

NextSanitize == Sanitize

SpecSanitize == InitSanitize /\ [][NextSanitize]_vars

----------------------------------------------------------------------------
(* zhuanchu_scipt.py: the browser-rendering run *)

\* the default of the url_column_name parameter of main (U+6765 U+6E90
\* U+7F51 U+5740)
url_column_name == "laiyuan wangzhi"

\* the default of the max_retries parameter of save_page_as_pdf
PageMaxRetries == 2

\* the seconds save_page_as_pdf waits before it tries a page again
RetryWait == 5

\* str(wangzhi).startswith('http')
startswith(s, prefix) ==
    Len(s) >= Len(prefix) /\ SubSeq(s, 1, Len(prefix)) = prefix

\* line 313: the cell holds something to render
ValidUrl(cell) == ~isna(cell) /\ startswith(str(cell), <<104, 116, 116, 112>>)

\* the position of a column name in df.columns
ColumnOf(columns, name) == CHOOSE i \in DOMAIN columns : columns[i] = name

\* line 291: url_column_name in columns
HasUrlColumn(columns) == \E i \in DOMAIN columns : columns[i] = url_column_name

\* what the browser does with one page: driver.get or Page.printToPDF raises
\* ("get", "print"), the cleanup script raises ("cleanup", caught at line
\* 228), the result has no data to decode after the file was opened
\* ("write"), or nothing raises; and the size of the PDF data it returns
Page(fails, size) == [fails |-> fails, size |-> size]

PageOk == Page("none", 3)
PageBlank == Page("none", 0)
PageTimeout == Page("get", 0)
PagePrintError == Page("print", 0)
PageCleanupError == Page("cleanup", 3)
PageWriteError == Page("write", 0)

\* lines 198-253, the try block of one attempt of save_page_as_pdf: the
\* exception it ends with ("none": it returned True), and the files it leaves
PageAttempt(files, name, page) ==
    IF page.fails \in {"get", "print"}
    THEN [exc |-> "WebDriverException", files |-> files]
    ELSE IF page.fails = "write"
    THEN [exc |-> "KeyError", files |-> WriteFile(files, name, 0)]
    ELSE [exc |-> "none", files |-> WriteFile(files, name, page.size)]

PageWillRetryMutAlways(n, retries) == TRUE

\* line 259: another attempt follows
PageWillRetry(n, retries) == n < retries - 1

\* except Exception catches it (KeyboardInterrupt is not an Exception)
IsException(e) == e \notin {"none", "KeyboardInterrupt"}

LoopExitMutNoFinally(exc) == IF exc = "none" THEN "finally" ELSE "raised"

\* lines 305 and 335: the statement that runs when the row loop is left with
\* exception exc ("none": the loop is over): the finally clause
LoopExit(exc) == "finally"

\* lines 275-294: read the table, pick the first and the third column, look
\* for the URL column
RenderStart ==
    /\ pc = "load"
    /\ IF ~df.readable \/ Len(df.columns) < 3
       THEN pc' = "except"
       ELSE IF ~HasUrlColumn(df.columns)
       THEN pc' = "end"
       ELSE pc' = "driver"
    /\ UNCHANGED <<envVars, dlVars, mainVars, histVars, renderVars>>

\* lines 300-303: setup_driver (lines 143-184) creates the download directory
\* and starts Chrome, which may fail; then the counters are zeroed
RenderSetupDriver ==
    /\ pc = "driver"
    /\ dir_exists' = TRUE
    /\ \E started \in BOOLEAN :
          IF started
          THEN /\ driver' = "open"
               /\ success_count' = 0 /\ fail_count' = 0 /\ idx' = 0
               /\ pc' = "loop"
          ELSE /\ pc' = "except"
               /\ UNCHANGED <<driver, success_count, fail_count, idx>>
    /\ UNCHANGED <<fs, server, served, artifacts, dlVars, df, xuhao, biaoti, beizhu,
                   urls, url_idx, failed_items, histVars, wangzhi, quits, raised>>

\* lines 307-322: the next row, its cells, the check of the URL and the file name
RenderRow ==
    /\ pc = "loop"
    /\ IF idx >= Len(df.rows)
       THEN /\ pc' = LoopExit("none")
            /\ UNCHANGED <<idx, xuhao, biaoti, wangzhi, url, filename, max_retries, attempt>>
       ELSE /\ xuhao' = str(df.rows[idx + 1][1])
            /\ biaoti' = str(df.rows[idx + 1][3])
            /\ wangzhi' = df.rows[idx + 1][ColumnOf(df.columns, url_column_name)]
            /\ IF ~ValidUrl(wangzhi')
               THEN /\ idx' = idx + 1 /\ pc' = "loop"
                    /\ UNCHANGED <<url, filename, max_retries, attempt>>
               ELSE /\ url' = str(wangzhi')
                    /\ filename' = sanitize_filename(
                                       xuhao' \o <<45>> \o biaoti' \o <<46, 112, 100, 102>>)
                    /\ max_retries' = PageMaxRetries
                    /\ attempt' = 0
                    /\ pc' = "save"
                    /\ UNCHANGED idx
    /\ UNCHANGED <<envVars, selected_ua, error_msg, wait_time, ret, df, beizhu, urls,
                   url_idx, success_count, fail_count, failed_items, histVars,
                   driver, quits, raised>>

\* lines 197-263 up to the sleep: one attempt of save_page_as_pdf, its except
\* clause included
RenderAttempt ==
    /\ pc = "save"
    /\ LET t == PageAttempt(fs, filename, NextResponse(url)) IN
       /\ served' = [served EXCEPT ![url] = @ + 1]
       /\ fs' = t.files
       /\ trace' = Append(trace, GetEvent(attempt, t.exc, 0))
       /\ IF t.exc = "none"
          THEN ret' = Return(TRUE, None, 253) /\ pc' = "saved"
          ELSE IF PageWillRetry(attempt, max_retries)
          THEN pc' = "wait5" /\ UNCHANGED ret
          ELSE ret' = Return(FALSE, None, 263) /\ pc' = "saved"
    /\ UNCHANGED <<dir_exists, server, artifacts, url, filename, max_retries, attempt,
                   selected_ua, error_msg, wait_time, mainVars, fs0, calls, run,
                   prev_calls, prev_fs, parts, renderVars>>

\* line 261: time.sleep(5), then the next iteration
RenderWait ==
    /\ pc = "wait5"
    /\ wait_time' = RetryWait
    /\ trace' = Append(trace, SleepEvent(RetryWait))
    /\ attempt' = attempt + 1
    /\ pc' = "save"
    /\ UNCHANGED <<envVars, url, filename, max_retries, selected_ua, error_msg, ret,
                   mainVars, fs0, calls, run, prev_calls, prev_fs, parts, renderVars>>

\* lines 324-333: the result is counted, and after the delay the loop goes on
RenderAfter ==
    /\ pc = "saved"
    /\ LET c == Count(ret.ok, success_count, fail_count) IN
       success_count' = c.s /\ fail_count' = c.f
    /\ calls' = Append(calls,
                       [row |-> idx + 1, pos |-> 1, xuhao |-> xuhao,
                        biaoti |-> biaoti, url |-> url, filename |-> filename,
                        ok |-> ret.ok, msg |-> ret.msg, line |-> ret.line,
                        requests |-> Cardinality({i \in DOMAIN trace : trace[i].ev = "get"})])
    /\ idx' = idx + 1
    /\ attempt' = 0 /\ wait_time' = 0 /\ ret' = NoReturn /\ trace' = <<>>
    /\ pc' = "loop"
    /\ UNCHANGED <<envVars, url, filename, max_retries, selected_ua, error_msg,
                   df, xuhao, biaoti, beizhu, urls, url_idx, failed_items,
                   fs0, run, prev_calls, prev_fs, parts, renderVars>>

\* an exception leaves the body of the row loop (lines 307-333): the operator
\* interrupts the run, or a print of the row cannot encode its title
RenderRaise ==
    /\ pc \in {"save", "wait5", "saved"}
    /\ \E e \in {"KeyboardInterrupt", "UnicodeEncodeError"} :
          raised' = e /\ pc' = LoopExit(e)
    /\ UNCHANGED <<envVars, dlVars, mainVars, histVars, wangzhi, driver, quits>>

\* lines 335-338: driver.quit(); then the summary, or the exception goes on to
\* the except clause of line 347 or out of main
RenderFinally ==
    /\ pc = "finally"
    /\ driver' = "closed"
    /\ quits' = quits + 1
    /\ pc' = IF raised = "none" THEN "summary"
             ELSE IF IsException(raised) THEN "except" ELSE "raised"
    /\ UNCHANGED <<envVars, dlVars, mainVars, histVars, wangzhi, raised>>

\* lines 340-345: the summary is printed
RenderSummary ==
    /\ pc = "summary"
    /\ pc' = "end"
    /\ UNCHANGED <<envVars, dlVars, mainVars, histVars, renderVars>>

\* lines 347-350: the error is printed and main returns
RenderExcept ==
    /\ pc = "except"
    /\ pc' = "end"
    /\ UNCHANGED <<envVars, dlVars, mainVars, histVars, renderVars>>

(* The tables and pages of the model *)

RenderTable(columns, rows) ==
    [readable |-> TRUE, ncols |-> Len(columns), columns |-> columns, rows |-> rows]

Unreadable == [readable |-> FALSE, ncols |-> 0, columns |-> <<>>, rows |-> <<>>]

FourColumns == <<"xuhao", "riqi", "biaoti", url_column_name>>

\* rows of a 4-column table: a title with ":", two plain rows, a row without
\* a URL, and a row whose URL cell is the text "x"
RenderRows ==
    {<<IntCell(1), NaN, StrCell(<<97, 58>>), StrCell(UrlA)>>,
     <<IntCell(2), NaN, StrCell(<<116>>), StrCell(UrlB)>>,
     <<IntCell(2), NaN, StrCell(<<116>>), StrCell(UrlA)>>,
     <<IntCell(4), NaN, StrCell(<<116>>), NaN>>,
     <<IntCell(5), NaN, NaN, StrCell(<<120>>)>>}

\* tables of 4 columns, a table without the URL column, a table of 2 columns
\* with it, and a table whose URL column is the second
RenderTables ==
    {RenderTable(FourColumns, rows) : rows \in SeqsOf(RenderRows, MaxRows)}
        \cup {Unreadable,
              RenderTable(<<"xuhao", "riqi", "biaoti", "beizhu">>,
                          <<<<IntCell(1), NaN, StrCell(<<116>>), StrCell(UrlA)>>>>),
              RenderTable(<<"xuhao", url_column_name>>,
                          <<<<IntCell(1), StrCell(UrlA)>>>>),
              RenderTable(<<"xuhao", url_column_name, "biaoti">>,
                          <<<<IntCell(6), StrCell(UrlB), StrCell(<<116>>)>>>>)}

\* browser behaviours: a page always renders, never loads, loads at the
\* second try, never prints, prints nothing, cannot be cleaned up, is
\* saved at the third try, or renders once and never again
PageScripts ==
    {<<PageOk>>, <<PageTimeout>>, <<PageTimeout, PageOk>>, <<PagePrintError>>,
     <<PageBlank>>, <<PageCleanupError>>, <<PageWriteError, PageTimeout, PageOk>>,
     <<PageOk, PagePrintError>>}

InitRender ==
    /\ pc = "load"
    /\ df \in RenderTables
    /\ server \in [{UrlA, UrlB} -> PageScripts]
    /\ served = [u \in {UrlA, UrlB} |-> 0]
    /\ fs = EmptyFs
    /\ dir_exists = FALSE
    /\ artifacts = <<>>
    /\ url = <<>> /\ filename = <<>> /\ max_retries = PageMaxRetries
    /\ DlIdle
    /\ idx = 0 /\ xuhao = <<>> /\ biaoti = <<>> /\ beizhu = NaN
    /\ urls = <<>> /\ url_idx = 0
    /\ success_count = 0 /\ fail_count = 0 /\ failed_items = <<>>
    /\ HistIdle
    /\ RenderIdle

NextRender ==
    \/ RenderStart \/ RenderSetupDriver \/ RenderRow \/ RenderAttempt \/ RenderWait
    \/ RenderAfter \/ RenderRaise \/ RenderFinally \/ RenderSummary \/ RenderExcept

SpecRender == InitRender /\ [][NextRender]_vars

----------------------------------------------------------------------------
(* Properties of a download_pdf call *)

\* the target was on disk, not empty, when the call started
PreExisting == filename \in DOMAIN fs0 /\ fs0[filename] > 0

\* the requests the call has issued
Requests == {i \in DOMAIN trace : trace[i].ev = "get"}

\* C1: a call whose target already exists with size > 0 returns (True, None)
\* having issued no request and having left every file as it was.
C1_SkipExisting ==
    (pc = "return" /\ PreExisting) =>
        /\ ret.ok /\ ret.msg = None
        /\ Requests = {}
        /\ served[url] = 0
        /\ fs = fs0

C1_Witness ==
    pc = "return" /\ PreExisting /\ ret.line = 54 /\ max_retries > 0

\* every response of the target's server is HTTP 500
AlwaysHttp500 ==
    \A k \in DOMAIN server[url] :
        server[url][k].raised = "none" /\ server[url][k].status = 500

\* request 0, sleep 1, request 1, sleep 2, ..., request n-1 (no sleep after it)
ExpectedTrace(n) ==
    [i \in 1..(IF n = 0 THEN 0 ELSE 2 * n - 1) |->
        IF i % 2 = 1 THEN GetEvent((i - 1) \div 2, "HTTPError", 500)
        ELSE SleepEvent(2 ^ ((i \div 2) - 1))]

\* C2: for a target not on disk whose every request returns HTTP 500 the call
\* makes exactly max_retries requests, sleeps 2^attempt seconds after failed
\* attempt number attempt and before the next request, does not sleep after
\* the last attempt, and returns False with an error message.
C2_Http500Retries ==
    (pc = "return" /\ ~PreExisting /\ AlwaysHttp500) =>
        /\ trace = ExpectedTrace(max_retries)
        /\ Cardinality(Requests) = max_retries
        /\ ~ret.ok /\ ret.msg # None

C2_Witness ==
    /\ pc = "return" /\ ~PreExisting /\ AlwaysHttp500
    /\ max_retries = 3 /\ Len(trace) = 5 /\ trace[4] = SleepEvent(2)

\* the response completes with nothing written
EmptyBody(r) ==
    /\ r.raised = "none" /\ r.status < 400 /\ r.broken = "none"
    /\ \A k \in DOMAIN r.chunks : r.chunks[k] = 0

EmptyFileMsg == Msg("xiazai de wenjian wei kong", 0)

\* C3: an attempt whose response is written completely with size 0 leaves no
\* file at the path and is a failed attempt: it is followed by the backoff
\* sleep of 2^attempt seconds and the next attempt, or, when it was the last
\* attempt, by the return of False with the empty-file message.
C3_EmptyBodyFails ==
    [][ /\ (pc = "attempt" /\ EmptyBody(NextResponse(url))) =>
            /\ filename \notin DOMAIN fs'
            /\ error_msg' = EmptyFileMsg
            /\ IF attempt < max_retries - 1
               THEN pc' = "backoff" /\ wait_time' = 2 ^ attempt /\ ret' = ret
               ELSE pc' = "return" /\ ~ret'.ok /\ ret'.msg = EmptyFileMsg
        /\ pc = "backoff" =>
            pc' = "attempt" /\ attempt' = attempt + 1 /\ fs' = fs
      ]_vars

C3_Witness ==
    /\ pc = "return" /\ ~ret.ok /\ ret.msg = EmptyFileMsg
    /\ Len(trace) >= 3 /\ trace[1].exc = "EmptyFile"
    /\ filename \notin DOMAIN fs

\* C9: when download_pdf returns success, a file of non-zero size is at the
\* target path.
C9_SuccessHasFile ==
    (pc = "return" /\ ret.ok) =>
        filename \in DOMAIN fs /\ fs[filename] > 0

C9_Witness ==
    pc = "return" /\ ret.ok /\ ret.line = 100 /\ attempt > 0 /\ ~PreExisting

----------------------------------------------------------------------------
(* Properties of the batch run *)

\* the table can be read and has the three columns main indexes
WellFormed == df.readable /\ df.ncols >= 3

Target(row_no, position, link) == [row |-> row_no, pos |-> position, url |-> link]

\* the links of row i of the table, in extraction order
RowTargets(i) ==
    LET found == extract_urls(df.rows[i][df.ncols]) IN
    [k \in DOMAIN found |-> Target(i, k, found[k])]

RECURSIVE TargetsFrom(_)
\* the links of rows i.. of the table, in row order and then extraction order
TargetsFrom(i) ==
    IF i > Len(df.rows) THEN <<>> ELSE RowTargets(i) \o TargetsFrom(i + 1)

\* the targets download_pdf has been called for and has returned from
Called == [i \in DOMAIN calls |-> Target(calls[i].row, calls[i].pos, calls[i].url)]

IsPrefix(p, q) == Len(p) <= Len(q) /\ SubSeq(q, 1, Len(p)) = p

\* steps left in the call of download_pdf, from the position in its loop
CallRank ==
    CASE pc = "url" -> 2 * DefaultMaxRetries + 4
      [] pc = "call" -> 2 * DefaultMaxRetries + 3
      [] pc = "attempt" -> 2 * (max_retries - attempt) + 1
      [] pc = "backoff" -> 2 * (max_retries - attempt)
      [] OTHER -> 0

\* a measure of the work main has left: rows, then links of the row, then
\* the position in the call
Rank ==
    CASE pc = "start" -> 10000 * (Len(df.rows) + 2)
      [] pc = "row" -> 10000 * (Len(df.rows) - idx + 1)
      [] pc \in {"url", "call", "attempt", "backoff", "return"} ->
            10000 * (Len(df.rows) - idx) + 100 * (Len(urls) - url_idx + 1) + CallRank
      [] pc = "ledger" -> 1
      [] OTHER -> 0

\* the calls so far are the first links of the table, in order; at the
\* summary they are all of them; before the summary main has a next step
C4_InOrder ==
    WellFormed =>
        /\ IsPrefix(Called, TargetsFrom(1))
        /\ pc = "done" => Called = TargetsFrom(1)
        /\ pc # "done" => ENABLED NextMain
        /\ Rank >= 0

\* C4: a failed download never aborts the batch: the calls of download_pdf
\* are at every moment a prefix of the links of the table in row order and
\* then extraction order, each link handed over once; main always has a next
\* step until the summary and every step brings the summary closer, so a run
\* over a well-formed table reaches its summary, with every link called.
C4_BatchCompletes ==
    /\ []C4_InOrder
    /\ [][run' = run => Rank' < Rank]_vars

C4_Witness ==
    /\ pc = "done" /\ Len(calls) >= 3
    /\ ~calls[1].ok /\ calls[2].ok /\ ~calls[3].ok

Succeeded == {i \in DOMAIN calls : calls[i].line \in {54, 100}}
Failed == {i \in DOMAIN calls : calls[i].line \notin {54, 100}}

\* C5: at every point of the run success_count + fail_count is the number of
\* targets processed, fail_count is the number of failure records,
\* success_count counts the targets that ended Success or Skipped and
\* fail_count those that ended Failed; at the summary the sum is the number
\* of links of the table.
C5_CountsAddUp ==
    /\ success_count + fail_count = Len(calls)
    /\ fail_count = Len(failed_items)
    /\ success_count = Cardinality(Succeeded)
    /\ fail_count = Cardinality(Failed)
    /\ pc = "done" => success_count + fail_count = Len(TargetsFrom(1))

C5_Witness ==
    pc = "done" /\ success_count >= 2 /\ fail_count >= 1
        /\ \E i \in DOMAIN calls : calls[i].line = 54

\* C6: two targets of a run with distinct (index, title, position) have
\* distinct file names.
C6_DistinctNames ==
    \A i, j \in DOMAIN calls :
        <<calls[i].xuhao, calls[i].biaoti, calls[i].pos>>
            # <<calls[j].xuhao, calls[j].biaoti, calls[j].pos>>
        => calls[i].filename # calls[j].filename

\* the ledger files written by the current run
LedgerOfRun(ext) ==
    SelectSeq(artifacts, LAMBDA a : a.stamp = run /\ a.ext = ext)

\* the failure records the calls of the run give, in processing order
RECURSIVE RecordsOf(_)
RecordsOf(cs) ==
    IF cs = <<>> THEN <<>>
    ELSE LET c == Head(cs) IN
         (IF c.ok THEN <<>>
          ELSE <<[hanghao |-> c.row, xuhao |-> c.xuhao, biaoti |-> c.biaoti,
                  lianjie |-> c.url, wenjianming |-> c.filename, cuowu |-> c.msg]>>)
         \o RecordsOf(Tail(cs))

\* the records a text ledger holds: after its 3 heading lines, blocks of 8
\* lines whose first 6 are the fields
TxtRecords(lines) ==
    [b \in 1..((Len(lines) - 3) \div 8) |->
        LET at == 3 + 8 * (b - 1) IN
        [hanghao |-> lines[at + 1].text, xuhao |-> lines[at + 2].text,
         biaoti |-> lines[at + 3].text, lianjie |-> lines[at + 4].text,
         wenjianming |-> lines[at + 5].text, cuowu |-> lines[at + 6].text]]

\* C7: the JSON and the text ledger are written exactly when a target of the
\* run ended Failed, at the end of the run; both then hold the failure
\* records of the run in collection order.
C7_LedgerIffFailures ==
    LET json == LedgerOfRun("json")
        txt == LedgerOfRun("txt")
        recs == RecordsOf(calls) IN
    /\ pc # "done" => json = <<>> /\ txt = <<>>
    /\ (pc = "done" /\ Failed = {}) => json = <<>> /\ txt = <<>>
    /\ (pc = "done" /\ Failed # {}) =>
          /\ Len(json) = 1 /\ Len(txt) = 1
          /\ json[1].content = recs
          /\ Len(txt[1].content) = 3 + 8 * Len(recs)
          /\ TxtRecords(txt[1].content) =
                [i \in DOMAIN recs |->
                    [recs[i] EXCEPT !.hanghao = IntToStr(recs[i].hanghao)]]

C7_Witness ==
    /\ pc = "done" /\ Cardinality(Failed) >= 2 /\ Succeeded # {}
    /\ Len(LedgerOfRun("json")) = 1

\* C8: in a second run over the same table and output directory, every
\* target that ended Success or Skipped in the first run ends Skipped with
\* no request and its file unchanged, and a target is requested again only
\* if the first run ended Failed for it and left no non-empty file for it.
C8_RerunSkips ==
    (run = 2 /\ pc = "done") =>
        /\ Called = [i \in DOMAIN prev_calls |->
                        Target(prev_calls[i].row, prev_calls[i].pos, prev_calls[i].url)]
        /\ \A i \in DOMAIN calls :
              /\ calls[i].filename = prev_calls[i].filename
              /\ prev_calls[i].ok =>
                    /\ calls[i].line = 54
                    /\ calls[i].requests = 0
                    /\ calls[i].filename \in DOMAIN fs
                    /\ fs[calls[i].filename] = prev_fs[calls[i].filename]
              /\ calls[i].requests > 0 =>
                    /\ ~prev_calls[i].ok
                    /\ ~(calls[i].filename \in DOMAIN prev_fs
                         /\ prev_fs[calls[i].filename] > 0)

C8_Witness ==
    /\ run = 2 /\ pc = "done"
    /\ \E i, j \in DOMAIN calls :
          /\ prev_calls[i].ok /\ calls[i].line = 54
          /\ ~prev_calls[j].ok /\ calls[j].requests > 0 /\ calls[j].ok

----------------------------------------------------------------------------
(* Properties of extract_urls *)

LinkTokens == {UrlA, UrlB}

\* the links the text was built from, in order of appearance
LinksOf(text) == SelectSeq(text, LAMBDA tok : tok \in LinkTokens)

\* every link of the text is followed by the end of the text or by a piece
\* of seps
FollowedBy(seps) ==
    \A i \in DOMAIN parts :
        parts[i] \in LinkTokens => (i = Len(parts) \/ parts[i + 1] \in seps)

\* whitespace and CJK punctuation: space, line feed, fullwidth comma,
\* ideographic comma, fullwidth question mark
AnySeparators == {<<32>>, <<10>>, <<65292>>, <<12289>>, <<65311>>}

\* whitespace, an ideograph of U+4E00..U+9FA5, or a terminator of url_pattern
PatternSeparators == {<<32>>, <<10>>, <<65292>>, <<21644>>, <<41>>}

\* C10 as stated: a text with N links separated by whitespace or any CJK
\* punctuation gives exactly N items, the k-th item being the k-th link found.
C10_AnyCjkPunctuation ==
    (pc = "extracted" /\ ~isna(beizhu) /\ FollowedBy(AnySeparators)) =>
        /\ Len(urls) = Len(LinksOf(parts))
        /\ \A k \in DOMAIN urls : IsPrefix(LinksOf(parts)[k], urls[k])

\* C10: for a text whose links are each followed by the end of the text,
\* whitespace, an ideograph of U+4E00..U+9FA5 or one of the terminators of
\* url_pattern, extract_urls returns exactly the links, in order of
\* appearance, repeated links kept; for a null input it returns the empty
\* sequence.
C10_ExtractLinks ==
    pc = "extracted" =>
        /\ isna(beizhu) => urls = <<>>
        /\ (~isna(beizhu) /\ FollowedBy(PatternSeparators)) =>
              urls = LinksOf(parts)

C10_Witness ==
    /\ pc = "extracted" /\ FollowedBy(PatternSeparators)
    /\ Len(urls) = 2 /\ urls[1] = urls[2] /\ parts[2] = <<21644>>

----------------------------------------------------------------------------
(* Properties of sanitize_filename *)

\* the file name before sanitize_filename
RawName == Concat(parts)

Min(a, b) == IF a < b THEN a ELSE b

\* C11: the sanitized name holds none of < > : " / \ | ? *, is at most 200
\* characters long, and is the first 200 characters (or all) of the input
\* with every forbidden character replaced by "_" and every other character
\* unchanged
C11_Sanitized ==
    pc = "sanitized" =>
        /\ \A i \in DOMAIN filename :
               filename[i] \notin {60, 62, 58, 34, 47, 92, 124, 63, 42}
        /\ Len(filename) <= 200
        /\ Len(filename) = Min(Len(RawName), 200)
        /\ \A i \in DOMAIN filename :
               filename[i] = IF RawName[i] \in {60, 62, 58, 34, 47, 92, 124, 63, 42}
                             THEN 95 ELSE RawName[i]

\* a name longer than the limit with "*" inside the kept part, a forbidden
\* character beyond it, and an ideograph that is kept
C11_Witness ==
    /\ pc = "sanitized"
    /\ Len(RawName) > 200
    /\ RawName[1] = 42 /\ filename[1] = 95
    /\ RawName[201] \in invalid_chars
    /\ Len(filename) = 200
    /\ \E i \in DOMAIN filename : filename[i] = 120

----------------------------------------------------------------------------
(* Properties of the file names of the batch *)

PdfExt == <<46, 112, 100, 102>>

EndsInPdf(name) ==
    Len(name) >= Len(PdfExt) /\ SubSeq(name, Len(name) - 3, Len(name)) = PdfExt

\* C12: the name passed to download_pdf is {index}-{title}.pdf for a row with
\* one link and {index}-{title}-{position}.pdf for a row with several, with the
\* forbidden characters replaced, and it ends in ".pdf"; so does the name of
\* every file in the output directory
C12_PdfNames ==
    /\ pc = "call" =>
          /\ \E stem \in {xuhao \o <<45>> \o biaoti} :
                filename =
                    resub(IF Len(urls) > 1
                          THEN stem \o <<45>> \o IntToStr(url_idx) \o PdfExt
                          ELSE stem \o PdfExt)
          /\ EndsInPdf(filename)
    /\ \A f \in DOMAIN fs : EndsInPdf(f)

----------------------------------------------------------------------------
(* Properties of the retry policy of download_pdf *)

\* the reason download_pdf gives for an attempt that ended with exception
\* exc on a response with the given status
ReasonOf(exc, status) ==
    IF exc = "HTTPError" THEN Msg("HTTP cuowu", status)
    ELSE IF exc \in {"ReadTimeout", "ConnectTimeout"} THEN Msg("qingqiu chaoshi", 0)
    ELSE IF exc = "ConnectionError" THEN Msg("lianjie cuowu", 0)
    ELSE IF exc = "EmptyFile" THEN Msg("xiazai de wenjian wei kong", 0)
    ELSE Msg(exc, 0)

\* the requests of the call, in order
Gets == SelectSeq(trace, LAMBDA e : e.ev = "get")

\* the exceptions the requests of the call ended with
Categories == {Gets[i].exc : i \in DOMAIN Gets}

\* C13: whatever the failure categories of the attempts, request k (from 0)
\* is followed by a wait of 2^k seconds and request k + 1 exactly when it
\* failed and k < max_retries - 1; a call that fails after requests has made
\* max_retries of them, with no wait after the last, and returns the reason
\* of its last attempt
C13_SharedRetryPolicy ==
    /\ \A i \in DOMAIN trace :
          IF i % 2 = 1
          THEN trace[i].ev = "get" /\ trace[i].n = (i - 1) \div 2
          ELSE /\ trace[i] = SleepEvent(2 ^ ((i - 2) \div 2))
               /\ trace[i - 1].exc # "none"
               /\ (i - 2) \div 2 < max_retries - 1
    /\ pc = "attempt" => Len(trace) = 2 * attempt
    /\ pc = "backoff" => Len(trace) = 2 * attempt + 1
    /\ (pc = "return" /\ trace # <<>>) =>
          LET last == trace[Len(trace)] IN
          /\ last.ev = "get"
          /\ ret.ok = (last.exc = "none")
          /\ ~ret.ok =>
                /\ Len(Gets) = max_retries
                /\ ret.msg = ReasonOf(last.exc, last.status)
                /\ error_msg = ret.msg

\* a call that failed after three attempts of different categories, the
\* reason being that of the third
C13_Witness ==
    /\ pc = "return" /\ ~ret.ok
    /\ Len(Gets) = 3
    /\ Gets[1].exc = "HTTPError"
    /\ Gets[2].exc = "ChunkedEncodingError"
    /\ Gets[3].exc \in {"ReadTimeout", "ConnectTimeout"}
    /\ ret.msg = Msg("qingqiu chaoshi", 0)
    /\ Categories = {"HTTPError", "ChunkedEncodingError", Gets[3].exc}

----------------------------------------------------------------------------
(* Properties of the client identity of download_pdf *)

\* the 7 signatures of lines 57-69
Pool ==
    {"Firefox/121.0 Windows", "Firefox/122.0 Windows", "Firefox/121.0 Macintosh",
     "Edg/120.0.0.0 Windows", "Safari/605.1.15 Macintosh",
     "Chrome/120.0.0.0 Windows", "Chrome/120.0.0.0 Macintosh"}

\* C14: the request of attempt 0 carries the first signature of the pool,
\* the request of every later attempt carries one of the 7 signatures of the
\* pool, and the signature chosen is never outside the pool
C14_IdentityFromPool ==
    [][ /\ pc = "attempt" =>
            /\ served'[url] = served[url] + 1
            /\ selected_ua' \in Pool
            /\ attempt = 0 => selected_ua' = "Firefox/121.0 Windows"
        /\ pc # "attempt" => (selected_ua' = selected_ua \/ selected_ua' = NoUA)
        /\ Cardinality(Pool) = 7
      ]_vars

\* a call whose second request carried the last signature of the pool
C14_Witness ==
    /\ pc = "backoff" /\ attempt = 1 /\ Len(Gets) = 2
    /\ selected_ua = "Chrome/120.0.0.0 Macintosh"

----------------------------------------------------------------------------
(* Properties of the rows without a link *)

\* the remark of the row the loop of main is about to take has no link
NextRowHasNoLink ==
    /\ pc = "row" /\ idx < Len(df.rows)
    /\ extract_urls(df.rows[idx + 1][df.ncols]) = <<>>

\* C15: a row whose remark yields no link is passed over: the loop goes to
\* the next row without a call of download_pdf and without a request, and the
\* counters, the failure records and the files are left as they were
C15_NoLinkRowSkipped ==
    [][ NextRowHasNoLink =>
            /\ pc' = "row" /\ idx' = idx + 1
            /\ calls' = calls /\ served' = served
            /\ success_count' = success_count /\ fail_count' = fail_count
            /\ failed_items' = failed_items
            /\ fs' = fs /\ artifacts' = artifacts
      ]_vars

\* after a row with two downloads, one of them failed, a row without a link
\* has been passed over
C15_Witness ==
    /\ pc = "row" /\ idx = 2 /\ run = 1
    /\ df.rows = <<RowTwo, RowNoUrl>>
    /\ urls = <<>>
    /\ success_count = 1 /\ fail_count = 1 /\ Len(failed_items) = 1
    /\ Len(calls) = 2 /\ DOMAIN fs # {}

----------------------------------------------------------------------------
(* Properties of the failure records *)

\* the target whose call of download_pdf has just returned Failed
JustFailed == pc = "return" /\ ~ret.ok

\* C16: within a run the sequence of failure records only grows at its end:
\* a record is appended exactly when a call of download_pdf has returned
\* Failed, it holds the row number, index, title, link, sanitized file name
\* and reason of that call, the records are those of the failed calls in
\* processing order, and until the ledger is written no record is changed
\* or removed
C16_AppendOnly ==
    /\ [](/\ Len(failed_items) = Cardinality({i \in DOMAIN calls : ~calls[i].ok})
          /\ \A i \in DOMAIN failed_items :
                \E j \in DOMAIN calls :
                   /\ ~calls[j].ok
                   /\ Cardinality({k \in 1..j : ~calls[k].ok}) = i
                   /\ failed_items[i].hanghao = calls[j].row
                   /\ failed_items[i].lianjie = calls[j].url
                   /\ failed_items[i].cuowu = calls[j].msg
          /\ \A i, j \in DOMAIN failed_items :
                i < j => failed_items[i].hanghao <= failed_items[j].hanghao)
    /\ [][ run' = run =>
            /\ JustFailed =>
                  failed_items' =
                      Append(failed_items,
                             [hanghao |-> idx + 1, xuhao |-> str(df.rows[idx + 1][1]),
                              biaoti |-> str(df.rows[idx + 1][3]),
                              lianjie |-> urls[url_idx],
                              wenjianming |->
                                  sanitize_filename(
                                      BuildName(xuhao, biaoti, url_idx, Len(urls))),
                              cuowu |-> ret.msg])
            /\ ~JustFailed => failed_items' = failed_items
         ]_vars

\* two records of one row, in extraction order, then the ledger
C16_Witness ==
    /\ pc = "done" /\ run = 1
    /\ Len(failed_items) = 2
    /\ failed_items[1].hanghao = 1 /\ failed_items[2].hanghao = 1
    /\ failed_items[1].lianjie = UrlA /\ failed_items[2].lianjie = UrlB
    /\ failed_items[1].wenjianming = <<50, 45, 116, 45, 49>> \o PdfExt
    /\ failed_items[2].cuowu = Msg("HTTP cuowu", 500)
    /\ Len(calls) > 2

----------------------------------------------------------------------------
(* Properties of a table that cannot be used *)

\* the table cannot be read, or has fewer than 3 columns
StructuralError == ~df.readable \/ df.ncols < 3

\* C17: with a table that cannot be read or has fewer than 3 columns the run
\* goes from its start to the error path and nowhere else: no row is taken,
\* download_pdf is not called, no request is made, no file is written and no
\* failure ledger is produced
C17_StructuralErrorFatal ==
    StructuralError =>
        /\ pc \in {"start", "error"}
        /\ pc = "start" => ENABLED MainStart
        /\ pc = "error" => ~ENABLED Next
        /\ idx = 0 /\ urls = <<>>
        /\ calls = <<>> /\ prev_calls = <<>> /\ run = 1
        /\ \A u \in DOMAIN served : served[u] = 0
        /\ fs = EmptyFs /\ ~dir_exists
        /\ artifacts = <<>>

\* the run on a table of two columns has ended in the error path
C17_Witness ==
    /\ pc = "error"
    /\ df.readable /\ df.ncols = 2 /\ Len(df.rows) = 1
    /\ fs = EmptyFs /\ artifacts = <<>>

----------------------------------------------------------------------------
(* Properties of the files a failed call leaves *)

\* C18: when download_pdf returns Failed there is no file of non-zero size
\* at the target path, so that the pre-check of a later call for the same
\* target does not report it as already downloaded
C18_FailedLeavesNoFile ==
    (pc = "return" /\ ~ret.ok) =>
        /\ filename \in DOMAIN fs => fs[filename] = 0
        /\ ~(exists(fs, filename) /\ getsize(fs, filename) > 0)

----------------------------------------------------------------------------
(* Termination of download_pdf *)

\* steps the call can still take: two for each attempt left (the request and
\* the wait), from the position in the loop
FetchRank ==
    CASE pc = "call" -> 2 * (IF max_retries > 0 THEN max_retries ELSE 0) + 2
      [] pc = "attempt" -> 2 * (max_retries - attempt)
      [] pc = "backoff" -> 2 * (max_retries - attempt) - 1
      [] OTHER -> 0

\* C19: a call of download_pdf with max_retries >= 0 always has a next step
\* until it returns, each step brings the return nearer, the call issues at
\* most max_retries requests, a request that succeeded is the last event of
\* the call and is followed by the return of Success, and a call for a target
\* not already present returns Success only after a request that succeeded
C19_CallTerminates ==
    /\ [](/\ pc # "return" => ENABLED NextFetch
          /\ pc = "return" => ret.line \in {54, 100, 115, 126, 137, 148, 151}
          /\ FetchRank >= 0
          /\ Len(Gets) <= max_retries
          /\ \A i \in DOMAIN trace :
                (trace[i].ev = "get" /\ trace[i].exc = "none") =>
                    i = Len(trace) /\ pc = "return" /\ ret.ok
          /\ (pc = "return" /\ ret.ok /\ ~PreExisting) =>
                \E i \in DOMAIN trace : trace[i].ev = "get" /\ trace[i].exc = "none")
    /\ [][FetchRank' < FetchRank]_vars

\* Success at the last attempt max_retries allows, after two failed ones
C19_Witness ==
    /\ pc = "return" /\ ret.ok /\ ret.line = 100
    /\ max_retries = 3 /\ Len(Gets) = 3 /\ Len(trace) = 5
    /\ Gets[1].exc # "none" /\ Gets[2].exc # "none" /\ Gets[3].exc = "none"

----------------------------------------------------------------------------
(* Properties of the browser of the rendering run *)

\* the statements of the row loop and of save_page_as_pdf
InRowLoop == pc \in {"loop", "save", "wait5", "saved"}

\* the run has left the row loop and its finally clause
LeftLoop == pc \in {"summary", "except", "raised", "end"}

\* C20: once setup_driver has returned a driver, the browser stays open as
\* long as the row loop runs, the finally clause is the next statement on
\* every way out of the loop, and driver.quit() has been executed exactly
\* once when the run goes on after it, whether the loop ended or an exception
\* left it; without the URL column the run ends with no driver started
C20_DriverQuitOnce ==
    /\ [](/\ quits <= 1
          /\ InRowLoop => driver = "open" /\ quits = 0 /\ raised = "none"
          /\ pc = "finally" => driver = "open" /\ quits = 0 /\ ENABLED RenderFinally
          /\ (LeftLoop /\ driver # "none") => driver = "closed" /\ quits = 1
          /\ driver = "none" => quits = 0 /\ calls = <<>> /\ fs = EmptyFs
          /\ (df.readable /\ Len(df.columns) >= 3
                /\ \A i \in DOMAIN df.columns : df.columns[i] # "laiyuan wangzhi") =>
                /\ pc \in {"load", "end"}
                /\ driver = "none" /\ ~dir_exists)
    /\ [][ /\ (InRowLoop /\ ~InRowLoop') => pc' = "finally"
           /\ quits' # quits => pc = "finally" /\ quits' = quits + 1
           /\ raised' # raised => InRowLoop
         ]_vars

\* the run was interrupted in the second row, after a page was saved, and the
\* browser has been closed
C20_Witness ==
    /\ pc = "raised" /\ raised = "KeyboardInterrupt"
    /\ driver = "closed" /\ quits = 1
    /\ idx = 1 /\ Len(df.rows) = 2 /\ success_count = 1
    /\ trace # <<>>

----------------------------------------------------------------------------
(* Properties of the retries of save_page_as_pdf *)

\* the cell of the URL column of row i is not null and starts with "http"
RowHasUrl(i) ==
    LET cell == df.rows[i][CHOOSE k \in DOMAIN df.columns :
                               df.columns[k] = "laiyuan wangzhi"] IN
    /\ cell.t # "nan"
    /\ Len(str(cell)) >= 4
    /\ SubSeq(str(cell), 1, 4) = <<104, 116, 116, 112>>

\* C21: a call of save_page_as_pdf makes at most max_retries attempts, each
\* failed attempt but the last of them is followed by a wait of 5 seconds
\* and the next attempt, the call returns True at the first attempt that
\* wrote the PDF and False only after max_retries failed attempts; and in
\* the batch success_count + fail_count is the number of rows with a valid
\* URL among the rows taken so far, and among all rows at the summary
C21_RenderRetries ==
    /\ Len(Gets) <= max_retries
    /\ \A i \in DOMAIN trace :
          IF i % 2 = 1
          THEN /\ trace[i].ev = "get" /\ trace[i].n = (i - 1) \div 2
               /\ i < Len(trace) => trace[i].exc # "none"
          ELSE /\ trace[i] = SleepEvent(5)
               /\ trace[i - 1].exc # "none"
               /\ (i - 2) \div 2 < max_retries - 1
    /\ pc = "save" => Len(trace) = 2 * attempt /\ attempt < max_retries
    /\ pc = "wait5" => Len(trace) = 2 * attempt + 1 /\ trace[Len(trace)].exc # "none"
    /\ pc = "saved" =>
          /\ trace # <<>>
          /\ ret.ok = (trace[Len(trace)].exc = "none")
          /\ ret.ok => filename \in DOMAIN fs
          /\ ~ret.ok => Len(Gets) = max_retries /\ Len(trace) = 2 * max_retries - 1
    /\ pc \in {"loop", "finally", "summary"} =>
          /\ success_count + fail_count =
                Cardinality({i \in 1..idx : RowHasUrl(i)})
          /\ success_count + fail_count = Len(calls)
          /\ success_count = Cardinality({i \in DOMAIN calls : calls[i].ok})
    /\ pc = "summary" =>
          success_count + fail_count =
              Cardinality({i \in DOMAIN df.rows : RowHasUrl(i)})

\* the second row has failed after two attempts with a wait of 5 seconds
\* between them, the first row having been saved
C21_Witness ==
    /\ pc = "saved" /\ ~ret.ok
    /\ trace = <<GetEvent(0, "KeyError", 0), SleepEvent(5),
                 GetEvent(1, "WebDriverException", 0)>>
    /\ idx = 1 /\ Len(df.rows) = 2 /\ success_count = 1 /\ fail_count = 0

====
